---- MODULE Spec2Model ----
(***************************************************************************)
(* A model of scripts/replace_placeholders.py: the PlaceholderReplacer     *)
(* class and the main() driver.  Text is a sequence of one-character       *)
(* strings, so that str.replace, str.upper, str.lower, str.capitalize,     *)
(* re.split and re.match are computed character by character.              *)
(***************************************************************************)
EXTENDS Naturals, Sequences, FiniteSets, TLC

VARIABLES
    name,           \* args.project_name / self.new_name
    dryRun,         \* args.dry_run
    noBackup,       \* args.no_backup
    rootExists,     \* args.project_root.exists()
    files,          \* target path -> text of the file under the root, or NoFile
    mode,           \* target path -> "ok" | "undecodable" | "unreadable" | "readonly"
    backupExists,   \* self.backup_dir.exists()
    backupFiles,    \* target path -> text of its copy under .backup_placeholders, or NoFile
    includeOld,     \* (root / "include" / "cpp-template").exists()
    includeNew,     \* (root / "include" / new_name).exists(), for a name other than cpp-template
    mkdirFails,     \* the environment refuses backup_dir.mkdir()
    renameFails,    \* the environment refuses include_old.rename()
    pc,             \* position in main() / run()
    exitStatus,     \* process exit status once pc = "exit"
    backupFlag,     \* self.backup
    replacements,   \* self.replacements
    idx,            \* position of create_backup's loop in files_to_process
    stats,          \* the dict of process_all_files
    passes,         \* completed calls of process_all_files
    prevFiles,      \* the target files as the latest call of process_all_files found them
    response,       \* what input() returned at the confirmation prompt, "none" before it
    orig,           \* the file system as it was when the program started
    ops,            \* kinds of mutating file-system calls made so far
    raisedCount,    \* targets whose process_file call raised (and caught) an exception
    sameWrites      \* paths opened for writing with the text that was read from them

vars == <<name, dryRun, noBackup, rootExists, files, mode, backupExists, backupFiles,
          includeOld, includeNew, mkdirFails, renameFails, pc, exitStatus, backupFlag,
          replacements, idx, stats, passes, prevFiles, response, orig, ops, raisedCount, sameWrites>>

---------------------------------------------------------------------------
(* Characters and the str methods the script uses.                         *)

LowerLetters == <<"a","b","c","d","e","f","g","h","i","j","k","l","m","n","o","p","q","r","s","t","u","v","w","x","y","z">>
UpperLetters == <<"A","B","C","D","E","F","G","H","I","J","K","L","M","N","O","P","Q","R","S","T","U","V","W","X","Y","Z">>
Digits == {"0","1","2","3","4","5","6","7","8","9"}

Range(s) == {s[i] : i \in 1..Len(s)}

IsLetter(c) == c \in Range(LowerLetters) \cup Range(UpperLetters)

IsNameChar(c) == IsLetter(c) \/ c \in Digits \/ c \in {"_", "-"}

IndexIn(c, s) == CHOOSE i \in 1..Len(s) : s[i] = c

UpperChar(c) == IF c \in Range(LowerLetters) THEN UpperLetters[IndexIn(c, LowerLetters)] ELSE c

LowerChar(c) == IF c \in Range(UpperLetters) THEN LowerLetters[IndexIn(c, UpperLetters)] ELSE c

\* str.upper()
Upper(s) == [i \in 1..Len(s) |-> UpperChar(s[i])]

\* str.lower()
Lower(s) == [i \in 1..Len(s) |-> LowerChar(s[i])]

\* str.capitalize(): the first character upper-cased, the rest lower-cased
Capitalize(s) == [i \in 1..Len(s) |-> IF i = 1 THEN UpperChar(s[i]) ELSE LowerChar(s[i])]

\* s[i:].startswith(old)
MatchAt(s, i, old) ==
    /\ i + Len(old) - 1 <= Len(s)
    /\ \A k \in 1..Len(old) : s[i + k - 1] = old[k]

\* old in s
Contains(s, old) == \E i \in 1..Len(s) : MatchAt(s, i, old)

RECURSIVE ReplaceFrom(_, _, _, _)
ReplaceFrom(s, i, old, new) ==
    IF i > Len(s) THEN <<>>
    ELSE IF MatchAt(s, i, old) THEN new \o ReplaceFrom(s, i + Len(old), old, new)
    ELSE <<s[i]>> \o ReplaceFrom(s, i + 1, old, new)

RECURSIVE ReplaceFirstFrom(_, _, _, _)
ReplaceFirstFrom(s, i, old, new) ==
    IF i > Len(s) THEN <<>>
    ELSE IF MatchAt(s, i, old) THEN new \o SubSeq(s, i + Len(old), Len(s))
    ELSE <<s[i]>> \o ReplaceFirstFrom(s, i + 1, old, new)

\* A str.replace that stops after the first occurrence (count=1).
ReplaceFirstOnly(s, old, new) == ReplaceFirstFrom(s, 1, old, new)

\* str.replace(old, new) for a non-empty old: every non-overlapping occurrence,
\* scanning from the left
Replace(s, old, new) == ReplaceFrom(s, 1, old, new)

\* name.replace("-", "_")
Snake(s) == Replace(s, <<"-">>, <<"_">>)

\* re.split(r'[-_]', name): the segments between separators, empty ones kept
RECURSIVE SplitFrom(_, _, _)
SplitFrom(s, i, cur) ==
    IF i > Len(s) THEN <<cur>>
    ELSE IF s[i] \in {"-", "_"} THEN <<cur>> \o SplitFrom(s, i + 1, <<>>)
    ELSE SplitFrom(s, i + 1, Append(cur, s[i]))

Split(s) == SplitFrom(s, 1, <<>>)

RECURSIVE Join(_)
Join(ws) == IF ws = <<>> THEN <<>> ELSE Head(ws) \o Join(Tail(ws))

\* _to_camel_case
ToCamelCase(n) == Join([i \in 1..Len(Split(n)) |-> Capitalize(Split(n)[i])])

---------------------------------------------------------------------------
(* The placeholder forms and the rule list.                                *)

BaseToken == <<"c","p","p","-","t","e","m","p","l","a","t","e">>
SnakeToken == <<"c","p","p","_","t","e","m","p","l","a","t","e">>
UpperToken == <<"C","P","P","-","T","E","M","P","L","A","T","E">>
UpperSnakeToken == <<"C","P","P","_","T","E","M","P","L","A","T","E">>
CamelToken == <<"C","p","p","T","e","m","p","l","a","t","e">>
UrlPrefix == <<"h","t","t","p","s",":","/","/","g","i","t","h","u","b",".","c","o","m","/","y","o","u","r","-","u","s","e","r","n","a","m","e","/">>
IncludePrefix == <<"i","n","c","l","u","d","e","/">>
ProjectPrefix == <<"p","r","o","j","e","c","t","(">>

\* _generate_replacements: the (old, new) pairs in list order
GenerateReplacements(n) ==
    << <<BaseToken, n>>,
       <<SnakeToken, Snake(n)>>,
       <<UpperToken, Upper(n)>>,
       <<UpperSnakeToken, Upper(Snake(n))>>,
       <<CamelToken, ToCamelCase(n)>>,
       <<SnakeToken, Lower(Snake(n))>>,
       <<UrlPrefix \o BaseToken, UrlPrefix \o n>> >>

\* for old, new in self.replacements: content = content.replace(old, new)
RECURSIVE ApplyRules(_, _)
ApplyRules(content, rules) ==
    IF rules = <<>> THEN content
    ELSE ApplyRules(Replace(content, Head(rules)[1], Head(rules)[2]), Tail(rules))

---------------------------------------------------------------------------
(* _validate_project_name                                                  *)

MaxNameLen == 50

\* re.match(r'^[a-zA-Z][a-zA-Z0-9_-]*$', name): without re.MULTILINE, $ matches
\* at the end of the string and also just before one newline that ends it
RegexMatch(n) ==
    /\ n # <<>>
    /\ IsLetter(n[1])
    /\ LET body == IF n[Len(n)] = "\n" THEN SubSeq(n, 1, Len(n) - 1) ELSE n
       IN  \A i \in 2..Len(body) : IsNameChar(body[i])

\* "ok" when the method returns, else the ValueError it raises
ValidateProjectName(n) ==
    IF n = <<>> THEN "empty"
    ELSE IF ~RegexMatch(n) THEN "pattern"
    ELSE IF Len(n) > MaxNameLen THEN "toolong"
    ELSE "ok"

---------------------------------------------------------------------------
(* The file system under the project root.                                 *)

\* self.files_to_process
Targets == <<"CMakeLists.txt", "README.md", "vcpkg.json", "tests/CMakeLists.txt",
             "libs/CMakeLists.txt", "src/CMakeLists.txt", "examples/CMakeLists.txt",
             "docs/CUSTOMIZATION_GUIDE.md", "examples/usage_scenarios.cpp">>

TargetSet == Range(Targets)

MainCMake == "CMakeLists.txt"

\* the targets that rglob("CMakeLists.txt") matches
CMakeTargets == {"CMakeLists.txt", "tests/CMakeLists.txt", "libs/CMakeLists.txt",
                 "src/CMakeLists.txt", "examples/CMakeLists.txt"}

\* the text of a path that does not exist
NoFile == <<"<absent>">>

\* open(path, 'r', encoding='utf-8').read() raises
ReadRaises(m) == m \in {"unreadable", "undecodable"}

\* open(path, 'w') raises
WriteRaises(m) == m = "readonly"

\* shutil.copy2 raises
CopyRaises(m) == m = "unreadable"

\* include_new.exists(): include/<name> is include/cpp-template when the name is cpp-template
IncludeNewExists == IF name = BaseToken THEN includeOld ELSE includeNew

FsState == [files |-> files, backupExists |-> backupExists, backupFiles |-> backupFiles,
            includeOld |-> includeOld, includeNew |-> includeNew]

---------------------------------------------------------------------------
(* process_file and process_all_files                                      *)

\* The handler of a variant without the try/except of process_file.
ProcessFilePropagates == FALSE

\* except Exception in process_file: the error is printed and False returned
ProcessFileCatches == TRUE

\* process_file on one target: the text it leaves, what it returns, whether an
\* exception was raised inside the try, and whether the file was opened for writing
ProcessFile(content, m, rules) ==
    IF content = NoFile
    THEN [text |-> content, updated |-> FALSE, raised |-> FALSE, wrote |-> FALSE]
    ELSE IF ReadRaises(m)
    THEN [text |-> content, updated |-> FALSE, raised |-> TRUE, wrote |-> FALSE]
    ELSE LET replaced == ApplyRules(content, rules)
         IN  IF replaced = content
             THEN [text |-> content, updated |-> FALSE, raised |-> FALSE, wrote |-> FALSE]
             ELSE IF WriteRaises(m)
             THEN [text |-> content, updated |-> FALSE, raised |-> TRUE, wrote |-> FALSE]
             ELSE [text |-> replaced, updated |-> TRUE, raised |-> FALSE, wrote |-> TRUE]

PassResults == [t \in TargetSet |-> ProcessFile(files[t], mode[t], replacements)]

\* the stats dict process_all_files returns: "errors" is initialised and never incremented
PassStats(res) ==
    [processed |-> Len(Targets),
     updated   |-> Cardinality({t \in TargetSet : res[t].updated}),
     errors    |-> 0]

\* One call of process_all_files, leaving the program at nextpc.
ProcessPass(nextpc) ==
    LET res == PassResults
        escaped == ~ProcessFileCatches /\ \E t \in TargetSet : res[t].raised
    IN  /\ prevFiles' = files
        /\ files' = [t \in TargetSet |-> res[t].text]
        /\ stats' = PassStats(res)
        /\ passes' = passes + 1
        /\ raisedCount' = Cardinality({t \in TargetSet : res[t].raised})
        /\ ops' = IF \E t \in TargetSet : res[t].wrote THEN ops \cup {"write"} ELSE ops
        /\ pc' = IF escaped THEN "exit" ELSE nextpc
        /\ exitStatus' = IF escaped THEN 1 ELSE exitStatus

---------------------------------------------------------------------------
(* main(): argument checks, the confirmation prompt, construction.         *)

Exit(status) ==
    /\ pc' = "exit"
    /\ exitStatus' = status

\* if not args.project_root.exists(): sys.exit(1)
CheckRoot ==
    /\ pc = "main"
    /\ IF rootExists
       THEN pc' = "check_cmake" /\ UNCHANGED exitStatus
       ELSE Exit(1)
    /\ UNCHANGED <<name, dryRun, noBackup, rootExists, files, mode, backupExists,
                   backupFiles, includeOld, includeNew, mkdirFails, renameFails,
                   backupFlag, replacements, idx, stats, passes, prevFiles, response,
                   orig, ops, raisedCount, sameWrites>>

\* if not main_cmake.exists(): sys.exit(1)
CheckCMake ==
    /\ pc = "check_cmake"
    /\ IF files[MainCMake] # NoFile
       THEN pc' = "read_cmake" /\ UNCHANGED exitStatus
       ELSE Exit(1)
    /\ UNCHANGED <<name, dryRun, noBackup, rootExists, files, mode, backupExists,
                   backupFiles, includeOld, includeNew, mkdirFails, renameFails,
                   backupFlag, replacements, idx, stats, passes, prevFiles, response,
                   orig, ops, raisedCount, sameWrites>>

\* the prompt is shown: f"project({args.project_name}" in cmake_content
Prompted(n, content) == Contains(content, ProjectPrefix \o n)

\* Reading the main CMakeLists.txt and the prompt.  The read is outside any
\* try: an exception ends the process with status 1, as does EOF at input().
\* Any answer but y/Y ends it with status 0.
ReadMainCMake ==
    /\ pc = "read_cmake"
    /\ IF ReadRaises(mode[MainCMake])
       THEN Exit(1) /\ UNCHANGED response
       ELSE IF Prompted(name, files[MainCMake])
       THEN \E r \in {"y", "n", "eof"} :
               /\ response' = r
               /\ IF r = "y" THEN pc' = "construct" /\ UNCHANGED exitStatus
                  ELSE IF r = "n" THEN Exit(0)
                  ELSE Exit(1)
       ELSE pc' = "construct" /\ UNCHANGED <<exitStatus, response>>
    /\ UNCHANGED <<name, dryRun, noBackup, rootExists, files, mode, backupExists,
                   backupFiles, includeOld, includeNew, mkdirFails, renameFails,
                   backupFlag, replacements, idx, stats, passes, prevFiles,
                   orig, ops, raisedCount, sameWrites>>

\* backup = False under --dry-run, else not args.no_backup
BackupArg(dry, nobackup) == IF dry THEN FALSE ELSE ~nobackup

\* A run() that replaces before it backs up.
PhaseAfterReplaceFirst(p) ==
    CASE p = "start"    -> "process"
      [] p = "process"  -> "backup"
      [] p = "backup"   -> "relocate"
      [] p = "relocate" -> "report"

\* the order of the calls in run(): create_backup, process_all_files,
\* update_directory_structure, generate_summary_report
PhaseAfter(p) ==
    CASE p = "start"    -> "backup"
      [] p = "backup"   -> "process"
      [] p = "process"  -> "relocate"
      [] p = "relocate" -> "report"

\* A driver that calls replacer.run() whatever --dry-run says.
MainDispatchAlwaysRuns(dry) == PhaseAfter("start")

\* if args.dry_run: print the rules; else: replacer.run()
MainDispatch(dry) == IF dry THEN "dry" ELSE PhaseAfter("start")

\* PlaceholderReplacer(...): __init__ validates the name and derives the rules; a
\* ValueError is not caught by main() and ends the process with status 1
Construct ==
    /\ pc = "construct"
    /\ IF ValidateProjectName(name) = "ok"
       THEN /\ backupFlag' = BackupArg(dryRun, noBackup)
            /\ replacements' = GenerateReplacements(name)
            /\ pc' = MainDispatch(dryRun)
            /\ UNCHANGED exitStatus
       ELSE /\ Exit(1)
            /\ UNCHANGED <<backupFlag, replacements>>
    /\ UNCHANGED <<name, dryRun, noBackup, rootExists, files, mode, backupExists,
                   backupFiles, includeOld, includeNew, mkdirFails, renameFails,
                   idx, stats, passes, prevFiles, response, orig, ops, raisedCount,
                   sameWrites>>

\* the dry-run branch prints the rules and the target count; main() returns
DryRunReport ==
    /\ pc = "dry"
    /\ Exit(0)
    /\ UNCHANGED <<name, dryRun, noBackup, rootExists, files, mode, backupExists,
                   backupFiles, includeOld, includeNew, mkdirFails, renameFails,
                   backupFlag, replacements, idx, stats, passes, prevFiles, response,
                   orig, ops, raisedCount, sameWrites>>

---------------------------------------------------------------------------
(* run(): create_backup, process_all_files, update_directory_structure,    *)
(* generate_summary_report; any exception that reaches run() is caught      *)
(* there and ends the process with sys.exit(1).                             *)

\* create_backup up to the loop: return at once without self.backup; else
\* rmtree of an existing backup directory, then mkdir
BackupBegin ==
    /\ pc = "backup"
    /\ IF ~backupFlag
       THEN /\ pc' = PhaseAfter("backup")
            /\ UNCHANGED <<exitStatus, backupExists, backupFiles, idx, ops>>
       ELSE /\ backupFiles' = [t \in TargetSet |-> NoFile]
            /\ ops' = ops \cup (IF backupExists THEN {"rmtree"} ELSE {})
                          \cup (IF mkdirFails THEN {} ELSE {"mkdir"})
            /\ backupExists' = ~mkdirFails
            /\ idx' = 1
            /\ IF mkdirFails
               THEN Exit(1)
               ELSE pc' = "backup_copy" /\ UNCHANGED exitStatus
    /\ UNCHANGED <<name, dryRun, noBackup, rootExists, files, mode, includeOld,
                   includeNew, mkdirFails, renameFails, backupFlag, replacements,
                   stats, passes, prevFiles, response, orig, raisedCount, sameWrites>>

\* one iteration of create_backup's loop: copy2 of the target if it exists
BackupCopy ==
    /\ pc = "backup_copy"
    /\ LET t == Targets[idx]
       IN  IF files[t] # NoFile /\ CopyRaises(mode[t])
           THEN /\ Exit(1)
                /\ UNCHANGED <<backupFiles, idx, ops>>
           ELSE /\ backupFiles' = IF files[t] # NoFile
                                  THEN [backupFiles EXCEPT ![t] = files[t]]
                                  ELSE backupFiles
                /\ ops' = IF files[t] # NoFile THEN ops \cup {"copy"} ELSE ops
                /\ idx' = idx + 1
                /\ pc' = IF idx = Len(Targets) THEN PhaseAfter("backup") ELSE pc
                /\ UNCHANGED exitStatus
    /\ UNCHANGED <<name, dryRun, noBackup, rootExists, files, mode, backupExists,
                   includeOld, includeNew, mkdirFails, renameFails, backupFlag,
                   replacements, stats, passes, prevFiles, response, orig,
                   raisedCount, sameWrites>>

\* stats = self.process_all_files()
ProcessAllFiles ==
    /\ pc = "process"
    /\ ProcessPass(PhaseAfter("process"))
    /\ UNCHANGED <<name, dryRun, noBackup, rootExists, mode, backupExists, backupFiles,
                   includeOld, includeNew, mkdirFails, renameFails, backupFlag,
                   replacements, idx, response, orig, sameWrites>>

\* update_directory_structure, the include directory: the rename is outside the
\* per-file try, so its failure reaches run()
RenameInclude ==
    /\ pc = "relocate"
    /\ IF includeOld /\ ~IncludeNewExists
       THEN IF renameFails
            THEN Exit(1) /\ UNCHANGED <<includeOld, includeNew, ops>>
            ELSE /\ includeOld' = FALSE
                 /\ includeNew' = TRUE
                 /\ ops' = ops \cup {"rename"}
                 /\ pc' = "refs"
                 /\ UNCHANGED exitStatus
       ELSE pc' = "refs" /\ UNCHANGED <<exitStatus, includeOld, includeNew, ops>>
    /\ UNCHANGED <<name, dryRun, noBackup, rootExists, files, mode, backupExists,
                   backupFiles, mkdirFails, renameFails, backupFlag, replacements,
                   idx, stats, passes, prevFiles, response, orig, raisedCount,
                   sameWrites>>

\* the reference update of one discovered CMakeLists.txt: the text it leaves and
\* whether it was opened for writing; an exception is caught per file
UpdateRef(content, m, n) ==
    IF content = NoFile \/ ReadRaises(m)
    THEN [text |-> content, wrote |-> FALSE]
    ELSE IF ~Contains(content, IncludePrefix \o BaseToken)
    THEN [text |-> content, wrote |-> FALSE]
    ELSE IF WriteRaises(m)
    THEN [text |-> content, wrote |-> FALSE]
    ELSE [text |-> Replace(content, IncludePrefix \o BaseToken, IncludePrefix \o n),
          wrote |-> TRUE]

\* the loop over project_root.rglob("CMakeLists.txt"): the targets of that name
\* and, the backup directory being under the root, their copies in it (copy2
\* keeps a copy's permission bits)
UpdateReferences ==
    /\ pc = "refs"
    /\ LET res == [t \in CMakeTargets |-> UpdateRef(files[t], mode[t], name)]
           bak == [t \in CMakeTargets |-> UpdateRef(backupFiles[t], mode[t], name)]
       IN  /\ files' = [t \in TargetSet |-> IF t \in CMakeTargets THEN res[t].text
                                            ELSE files[t]]
           /\ backupFiles' = [t \in TargetSet |-> IF t \in CMakeTargets THEN bak[t].text
                                                  ELSE backupFiles[t]]
           /\ ops' = IF \E t \in CMakeTargets : res[t].wrote \/ bak[t].wrote
                     THEN ops \cup {"write"} ELSE ops
           /\ sameWrites' = sameWrites
                  \cup {<<"root", t>> : t \in {u \in CMakeTargets :
                            res[u].wrote /\ res[u].text = files[u]}}
                  \cup {<<"backup", t>> : t \in {u \in CMakeTargets :
                            bak[u].wrote /\ bak[u].text = backupFiles[u]}}
    /\ pc' = PhaseAfter("relocate")
    /\ UNCHANGED <<name, dryRun, noBackup, rootExists, mode, backupExists, includeOld,
                   includeNew, mkdirFails, renameFails, exitStatus, backupFlag,
                   replacements, idx, stats, passes, prevFiles, response, orig,
                   raisedCount>>

\* generate_summary_report, the closing message; main() returns
Report ==
    /\ pc = "report"
    /\ Exit(0)
    /\ UNCHANGED <<name, dryRun, noBackup, rootExists, files, mode, backupExists,
                   backupFiles, includeOld, includeNew, mkdirFails, renameFails,
                   backupFlag, replacements, idx, stats, passes, prevFiles, response,
                   orig, ops, raisedCount, sameWrites>>

\* process_all_files called once more by a further run with the same name, on
\* the files the first call left
SecondPass ==
    /\ pc = PhaseAfter("process")
    /\ passes = 1
    /\ ProcessPass(pc)
    /\ UNCHANGED <<name, dryRun, noBackup, rootExists, mode, backupExists, backupFiles,
                   includeOld, includeNew, mkdirFails, renameFails, backupFlag,
                   replacements, idx, response, orig, sameWrites>>

---------------------------------------------------------------------------
(* Initial states.                                                          *)

MaxFaults == 1
MaxShortName == 2
MaxFrags == 3

\* project(x): a build description with no placeholder in it
Plain == <<"p","r","o","j","e","c","t","(","x",")">>

\* include/cpp-template: a reference to the include directory
IncludeRef == IncludePrefix \o BaseToken

AllOk == [t \in TargetSet |-> "ok"]

NoFiles == [t \in TargetSet |-> NoFile]

RunNames == {<<"x">>, BaseToken, <<"1", "x">>}

FaultTargets == {"CMakeLists.txt", "src/CMakeLists.txt"}

FaultItems == (FaultTargets \X {"undecodable", "unreadable", "readonly"})
                  \cup {<<"env", "mkdir">>, <<"env", "rename">>}

FaultSets == {F \in SUBSET FaultItems :
                 /\ Cardinality(F) <= MaxFaults
                 /\ \A a, b \in F : a[1] = b[1] /\ a[1] # "env" => a = b}

ModeOf(F) == [t \in TargetSet |->
                 IF \E a \in F : a[1] = t THEN (CHOOSE a \in F : a[1] = t)[2] ELSE "ok"]

InitialFiles ==
    {[t \in TargetSet |->
         CASE t = MainCMake            -> m
           [] t = "src/CMakeLists.txt" -> c
           [] t = "README.md"          -> BaseToken
           [] OTHER                    -> Plain] :
     m \in {NoFile, Plain, IncludeRef}, c \in {NoFile, Plain, IncludeRef}}

\* a backup directory left by an earlier run
StaleBackup == [t \in TargetSet |-> IF t = MainCMake THEN IncludeRef ELSE NoFile]

InitProgram ==
    /\ exitStatus = 0
    /\ backupFlag = FALSE
    /\ replacements = <<>>
    /\ idx = 1
    /\ stats = [processed |-> 0, updated |-> 0, errors |-> 0]
    /\ passes = 0
    /\ prevFiles = files
    /\ response = "none"
    /\ orig = FsState
    /\ ops = {}
    /\ raisedCount = 0
    /\ sameWrites = {}

\* main() is entered with any arguments, on any project root
Init ==
    /\ pc = "main"
    /\ name \in RunNames
    /\ dryRun \in BOOLEAN
    /\ noBackup \in BOOLEAN
    /\ rootExists \in BOOLEAN
    /\ IF rootExists
       THEN /\ files \in InitialFiles
            /\ \E F \in FaultSets :
                  /\ mode = ModeOf(F)
                  /\ mkdirFails = (<<"env", "mkdir">> \in F)
                  /\ renameFails = (<<"env", "rename">> \in F)
            /\ backupExists \in BOOLEAN
            /\ backupFiles = IF backupExists THEN StaleBackup ELSE NoFiles
            /\ includeOld \in BOOLEAN
            /\ includeNew \in (IF includeOld /\ name # BaseToken THEN BOOLEAN ELSE {FALSE})
       ELSE /\ files = NoFiles
            /\ mode = AllOk
            /\ mkdirFails = FALSE
            /\ renameFails = FALSE
            /\ backupExists = FALSE
            /\ backupFiles = NoFiles
            /\ includeOld = FALSE
            /\ includeNew = FALSE
    /\ InitProgram

Next ==
    \/ CheckRoot
    \/ CheckCMake
    \/ ReadMainCMake
    \/ Construct
    \/ DryRunReport
    \/ BackupBegin
    \/ BackupCopy
    \/ ProcessAllFiles
    \/ RenameInclude
    \/ UpdateReferences
    \/ Report

Spec == Init /\ [][Next]_vars

---------------------------------------------------------------------------
(* The constructor on its own: every short name over NameAlphabet, and      *)
(* names around the length limit.                                           *)

NameAlphabet == {"a", "B", "1", "-", "_", " ", "\n"}

RECURSIVE Strings(_, _)
Strings(alphabet, k) ==
    IF k = 0 THEN {<<>>}
    ELSE Strings(alphabet, k - 1)
           \cup {Append(s, c) : s \in Strings(alphabet, k - 1), c \in alphabet}

Repeat(c, k) == [i \in 1..k |-> c]

LongNames == {Repeat("a", k) : k \in (MaxNameLen - 1)..(MaxNameLen + 1)}
                 \cup {Append(Repeat("a", k), "\n") : k \in (MaxNameLen - 2)..MaxNameLen}

NameInputs == Strings(NameAlphabet, MaxShortName) \cup LongNames

InitValidate ==
    /\ pc = "construct"
    /\ name \in NameInputs
    /\ dryRun \in BOOLEAN
    /\ noBackup = FALSE
    /\ rootExists = TRUE
    /\ files = [t \in TargetSet |-> Plain]
    /\ mode = AllOk
    /\ mkdirFails = FALSE
    /\ renameFails = FALSE
    /\ backupExists = FALSE
    /\ backupFiles = NoFiles
    /\ includeOld = FALSE
    /\ includeNew = FALSE
    /\ InitProgram

SpecValidate == InitValidate /\ [][Construct]_vars

---------------------------------------------------------------------------
(* The replacement pass run twice on one file: every text of up to MaxFrags *)
(* fragments, for names with and without placeholder forms in them.         *)

Fragments == {<<" ">>, BaseToken, SnakeToken, UpperToken, CamelToken,
              <<"c">>, <<"p","p","-","t","e","m","p","l","a","t","e">>}

RECURSIVE Concats(_)
Concats(k) ==
    IF k = 0 THEN {<<>>}
    ELSE Concats(k - 1) \cup {s \o f : s \in Concats(k - 1), f \in Fragments}

PassNames == {<<"c">>, <<"M","y","-","L","i","b">>,
              <<"X","c","p","p","_","t","e","m","p","l","a","t","e">>}

InitTwice ==
    /\ pc = "process"
    /\ name \in PassNames
    /\ dryRun = FALSE
    /\ noBackup = TRUE
    /\ rootExists = TRUE
    /\ \E text \in Concats(MaxFrags) :
          files = [t \in TargetSet |->
                      CASE t = MainCMake   -> Plain
                        [] t = "README.md" -> text
                        [] OTHER           -> NoFile]
    /\ mode = AllOk
    /\ mkdirFails = FALSE
    /\ renameFails = FALSE
    /\ backupExists = FALSE
    /\ backupFiles = NoFiles
    /\ includeOld = FALSE
    /\ includeNew = FALSE
    /\ exitStatus = 0
    /\ backupFlag = FALSE
    /\ replacements = GenerateReplacements(name)
    /\ idx = 1
    /\ stats = [processed |-> 0, updated |-> 0, errors |-> 0]
    /\ passes = 0
    /\ prevFiles = files
    /\ response = "none"
    /\ orig = FsState
    /\ ops = {}
    /\ raisedCount = 0
    /\ sameWrites = {}

NextTwice ==
    \/ ProcessAllFiles
    \/ SecondPass

SpecTwice == InitTwice /\ [][NextTwice]_vars

---------------------------------------------------------------------------
(* Properties.                                                              *)

BackupEnabled == ~dryRun /\ ~noBackup

\* run() went through all its phases and main() returned
RunCompleted == pc = "exit" /\ exitStatus = 0 /\ passes = 1

Readme == "README.md"

\* C1: after a complete run with backup enabled on a root that holds all nine
\* targets, the backup directory holds, for each target, a copy equal to the
\* text the target had before the run.
C1_BackupHoldsOriginals ==
    (RunCompleted /\ BackupEnabled /\ \A t \in TargetSet : orig.files[t] # NoFile)
        => \A t \in TargetSet : backupFiles[t] = orig.files[t]

MainExists == orig.files[MainCMake] # NoFile

ReachesConstruct ==
    /\ rootExists
    /\ MainExists
    /\ ~ReadRaises(mode[MainCMake])
    /\ Prompted(name, orig.files[MainCMake]) => response = "y"

NameRejected == ReachesConstruct /\ ValidateProjectName(name) # "ok"

ReachesRun == ReachesConstruct /\ ValidateProjectName(name) = "ok" /\ ~dryRun

BackupRaises ==
    /\ ReachesRun
    /\ ~noBackup
    /\ mkdirFails \/ \E t \in TargetSet : orig.files[t] # NoFile /\ CopyRaises(mode[t])

RenameRaises ==
    /\ ReachesRun
    /\ ~BackupRaises
    /\ orig.includeOld
    /\ ~(IF name = BaseToken THEN orig.includeOld ELSE orig.includeNew)
    /\ renameFails

BackupMissesTarget == \E t \in TargetSet : files[t] # NoFile /\ backupFiles[t] = NoFile

RootUntouched ==
    /\ files = orig.files
    /\ includeOld = orig.includeOld
    /\ includeNew = orig.includeNew
    /\ ops \cap {"write", "rename"} = {}

\* C2: with backup enabled, a backup that misses an existing target never
\* coexists with a changed target or a renamed directory, and a run that
\* create_backup aborts leaves every target with its original text.
C2_BackupBeforeMutation ==
    BackupEnabled =>
        /\ BackupMissesTarget => RootUntouched
        /\ BackupRaises => RootUntouched /\ (pc = "exit" => exitStatus = 1)

\* C2 witness: create_backup failed after it had copied some targets.
C2_Witness ==
    /\ BackupEnabled
    /\ pc = "exit"
    /\ exitStatus = 1
    /\ "copy" \in ops
    /\ BackupMissesTarget

PlaceholderForms == {BaseToken, SnakeToken, UpperToken, UpperSnakeToken, CamelToken}

HasPlaceholder(text) == \E f \in PlaceholderForms : Contains(text, f)

\* no replacement text derived from the name holds a placeholder form
NameClean(n) ==
    \A i \in 1..Len(GenerateReplacements(n)) : ~HasPlaceholder(GenerateReplacements(n)[i][2])

RECURSIVE WordsFrom(_, _, _)
WordsFrom(s, i, cur) ==
    IF i > Len(s) THEN {cur}
    ELSE IF s[i] \in {" ", "\n"} THEN {cur} \cup WordsFrom(s, i + 1, <<>>)
    ELSE WordsFrom(s, i + 1, Append(cur, s[i]))

\* the text is words between blanks, each one a placeholder form or free of them
WordStructured(text) ==
    \A w \in WordsFrom(text, 1, <<>>) : w \in PlaceholderForms \/ ~HasPlaceholder(w)

SecondPassIsNoOp == stats.updated = 0 /\ files = prevFiles

ClaimedValid(n) ==
    /\ n # <<>>
    /\ IsLetter(n[1])
    /\ \A i \in 1..Len(n) : IsNameChar(n[i])
    /\ Len(n) <= MaxNameLen

\* C4: the constructor returns exactly for the names that are non-empty, start
\* with a letter, hold only letters, digits, hyphens and underscores, and have
\* at most 50 characters; every other name is rejected.
C4_ValidationExact ==
    pc # "construct" => ((pc # "exit") <=> ClaimedValid(name))

\* C5: under --dry-run nothing under the root changes: no file, no directory,
\* no backup directory created or removed.
C5_DryRunTouchesNothing ==
    dryRun => FsState = orig /\ ops = {}

\* C5 witness: a dry run that printed the rules, with and beside an old backup.
C5_Witness ==
    /\ dryRun
    /\ pc = "exit"
    /\ exitStatus = 0
    /\ replacements # <<>>
    /\ orig.backupExists
    /\ orig.includeOld
    /\ HasPlaceholder(orig.files[MainCMake])

\* C6: after the pass, the errors counter is the number of targets whose
\* processing raised.
C6_ErrorsCounted ==
    passes = 1 => stats.errors = raisedCount

\* C7: no file is opened for writing with the text that was read from it.
C7_NoWriteOfUnchangedText ==
    sameWrites = {}

C9_SecondRuleWins ==
    (passes = 1 /\ orig.files[Readme] = SnakeToken)
        => files[Readme] = Lower(Snake(name))

\* first character upper-cased, the rest as it was
ClaimedCapitalize(w) == [i \in 1..Len(w) |-> IF i = 1 THEN UpperChar(w[i]) ELSE w[i]]

ClaimedCamelCase(n) == Join([i \in 1..Len(Split(n)) |-> ClaimedCapitalize(Split(n)[i])])

\* C10: the replacement of the CppTemplate rule is the name's segments joined,
\* each with its first character upper-cased and the rest left as it was.
C10_CamelKeepsRest ==
    replacements # <<>> => replacements[5] = <<CamelToken, ClaimedCamelCase(name)>>

====
